---- MODULE Spec2Model ----
(***************************************************************************)
(* Model of the WebGL "Stable Fluids" simulation of src/js/tab1-fluids.js   *)
(* (lines 576-1209): the texture store, the double-buffered fields, the     *)
(* GL texture-unit bindings, the shader stages, step(), display(),          *)
(* render() and the UI / pointer handlers.                                  *)
(*                                                                           *)
(* Numbers.  Texel values are fixed-point integers in units of 1/FP, texture *)
(* coordinates are fixed-point integers in units of 1/CU.  Every product     *)
(* is rounded to the nearest unit (RDiv), as a float operation rounds.       *)
(* Only the channels that are ever read are kept: velocity .xy, pressure,    *)
(* divergence and curl .x, dye .rgb.                                         *)
(***************************************************************************)
EXTENDS Integers, Sequences, FiniteSets, TLC

\* ------------------------------------------------------------------ bounds
\* Side of the simulation grid (SIM_RESOLUTION scaled down).
SimRes == 3
\* Number of frames (calls of render) explored.
MaxTicks == 2
\* Number of UI / pointer events explored.
MaxEvents == 2

\* ------------------------------------------------------------ number model
FP == 10000
CU == 2400

\* DYE_RESOLUTION is twice SIM_RESOLUTION (512 and 256).
DyeRes == 2 * SimRes

\* n / d rounded to the nearest integer (d > 0).
RDiv(n, d) == (n + (d \div 2)) \div d

\* f itself.  TLC keeps a function constructor unevaluated and re-evaluates
\* its body at every application; comparing it evaluates it once and for all.
Strict(f) == IF f = f THEN f ELSE f

Zero(nch) == Strict([k \in 1..nch |-> 0])

Cells(res) == (0..(res - 1)) \X (0..(res - 1))

\* ------------------------------------------------------- textures and FBOs
\* The eight physical buffers allocated by createTextures.
Buffers == {"velocity1", "velocity2", "pressure1", "pressure2",
            "divergence", "curl", "dye1", "dye2"}

\* Side length a buffer was created with.
ResOf(b) == IF b \in {"dye1", "dye2"} THEN DyeRes ELSE SimRes

\* Number of channels of a buffer that the shaders read.
ChannelsOf(b) ==
    IF b \in {"velocity1", "velocity2"} THEN 2
    ELSE IF b \in {"dye1", "dye2"} THEN 3
    ELSE 1

\* gl.texImage2D(..., null): a texture whose texels are all zero.
createFBO(b) == Strict([c \in Cells(ResOf(b)) |-> Zero(ChannelsOf(b))])

createDoubleFBO(b1, b2) == [read |-> b1, write |-> b2]

\* textures.* : which physical buffer plays which role.
createTextures ==
    [velocity   |-> createDoubleFBO("velocity1", "velocity2"),
     pressure   |-> createDoubleFBO("pressure1", "pressure2"),
     divergence |-> "divergence",
     curl       |-> "curl",
     dye        |-> createDoubleFBO("dye1", "dye2")]

\* ----------------------------------------------------------- texture fetch
\* Mutant of ClampIndex: the index wraps around (REPEAT).
ClampIndex_Repeat(i, res) == i % res

\* CLAMP_TO_EDGE on a texel index.
ClampIndex(i, res) == IF i < 0 THEN 0 ELSE IF i > res - 1 THEN res - 1 ELSE i

\* LINEAR filter weight f (in 1/CU) between two texels.
Lerp(a, b, f) ==
    IF f = 0 THEN a
    ELSE Strict([k \in DOMAIN a |-> RDiv(a[k] * (CU - f) + b[k] * f, CU)])

\* texture2D(grid, vec2(u, v)) with LINEAR filtering and CLAMP_TO_EDGE.
texture2D(grid, res, u, v) ==
    LET xt == u * res - (CU \div 2)
        yt == v * res - (CU \div 2)
        i0 == xt \div CU
        j0 == yt \div CU
        fx == xt % CU
        fy == yt % CU
        T(i, j) == grid[<<ClampIndex(i, res), ClampIndex(j, res)>>]
    IN  Lerp(Lerp(T(i0, j0), T(i0 + 1, j0), fx),
             Lerp(T(i0, j0 + 1), T(i0 + 1, j0 + 1), fx), fy)

\* Mutant of UV: the fragment is taken at the corner of its cell.
UV_Corner(i, res) == (i * CU) \div res

\* v_uv of the fragment at cell index i of a render target of side res.
UV(i, res) == ((2 * i + 1) * CU) \div (2 * res)

\* 1.0 / res in texture coordinates.
TexelSize(res) == CU \div res

\* ------------------------------------------------------------------ shaders
\* clearShader: gl_FragColor = u_color, with u_color = (0, 0, 0, 1).
clearShader(res, nch) == Strict([c \in Cells(res) |-> Zero(nch)])

\* exp(-q) for q >= 0 in 1/FP: table at the integers, linear in between.
ExpTable == <<10000, 3679, 1353, 498, 183, 67, 25, 9, 3, 1, 0>>

ExpNeg(q) ==
    LET k == q \div FP
        f == q % FP
    IN  IF k + 2 > Len(ExpTable) THEN 0
        ELSE RDiv(ExpTable[k + 1] * (FP - f) + ExpTable[k + 2] * f, FP)

\* canvas.width / canvas.height as set by resizeCanvas.
canvasWidth == 500
canvasHeight == 500

\* splatShader: base + exp(-|p|^2 / u_radius) * u_color, p.x scaled by the
\* aspect ratio.  point in 1/CU, color in 1/FP, radius in 1/1000.
splatShader(base, baseRes, outRes, point, color, radiusMilli) ==
    [c \in Cells(outRes) |->
        LET px == ((UV(c[1], outRes) - point[1]) * canvasWidth) \div canvasHeight
            py == UV(c[2], outRes) - point[2]
            d2 == RDiv(px * px + py * py, (CU * CU) \div FP)
            splash == ExpNeg(RDiv(d2 * 1000, radiusMilli))
            b == texture2D(base, baseRes, UV(c[1], outRes), UV(c[2], outRes))
        IN  Strict([k \in DOMAIN b |-> b[k] + RDiv(splash * color[k], FP)])]

\* advectionShader: u_dissipation * texture2D(u_source, v_uv - u_dt * vel * u_texelSize).
\* dt is dtNum / dtDen; texelSize and the coordinates are in 1/CU.
advectionShader(velocity, velRes, source, srcRes, outRes, texelSize, dtNum, dtDen, dissipation) ==
    [c \in Cells(outRes) |->
        LET u == UV(c[1], outRes)
            v == UV(c[2], outRes)
            vel == texture2D(velocity, velRes, u, v)
            cu == u - RDiv(dtNum * vel[1] * texelSize, dtDen * FP)
            cv == v - RDiv(dtNum * vel[2] * texelSize, dtDen * FP)
            s == texture2D(source, srcRes, cu, cv)
        IN  Strict([k \in DOMAIN s |-> RDiv(dissipation * s[k], FP)])]

\* The texel of a one-channel or two-channel texture at v_uv + (du, dv).
Fetch(grid, res, uv, du, dv) == texture2D(grid, res, uv[1] + du, uv[2] + dv)

\* v_uv of the fragment of cell c of a render target of side res.
FragUV(c, res) == <<UV(c[1], res), UV(c[2], res)>>

\* divergenceShader: 0.5 * (R.x - L.x + T.y - B.y).  ts is u_texelSize.
divergenceShader(velocity, velRes, outRes, ts) ==
    [c \in Cells(outRes) |->
        LET uv == FragUV(c, outRes)
            L == Fetch(velocity, velRes, uv, -ts, 0)[1]
            R == Fetch(velocity, velRes, uv, ts, 0)[1]
            B == Fetch(velocity, velRes, uv, 0, -ts)[2]
            T == Fetch(velocity, velRes, uv, 0, ts)[2]
        IN  <<RDiv(R - L + T - B, 2)>>]

\* pressureShader: (L + R + B + T - divergence) * 0.25  (one Jacobi sweep).
pressureShader(pressure, prsRes, divergence, divRes, outRes, ts) ==
    [c \in Cells(outRes) |->
        LET uv == FragUV(c, outRes)
            L == Fetch(pressure, prsRes, uv, -ts, 0)[1]
            R == Fetch(pressure, prsRes, uv, ts, 0)[1]
            B == Fetch(pressure, prsRes, uv, 0, -ts)[1]
            T == Fetch(pressure, prsRes, uv, 0, ts)[1]
            C == Fetch(divergence, divRes, uv, 0, 0)[1]
        IN  <<RDiv(L + R + B + T - C, 4)>>]

\* gradientSubtractShader: vel - 0.5 * (R - L, T - B) of the pressure.
gradientSubtractShader(pressure, prsRes, velocity, velRes, outRes, ts) ==
    [c \in Cells(outRes) |->
        LET uv == FragUV(c, outRes)
            L == Fetch(pressure, prsRes, uv, -ts, 0)[1]
            R == Fetch(pressure, prsRes, uv, ts, 0)[1]
            B == Fetch(pressure, prsRes, uv, 0, -ts)[1]
            T == Fetch(pressure, prsRes, uv, 0, ts)[1]
            vel == Fetch(velocity, velRes, uv, 0, 0)
        IN  <<vel[1] - RDiv(R - L, 2), vel[2] - RDiv(T - B, 2)>>]

\* curlShader: 0.5 * ((R.y - L.y) - (T.x - B.x)).
curlShader(velocity, velRes, outRes, ts) ==
    [c \in Cells(outRes) |->
        LET uv == FragUV(c, outRes)
            L == Fetch(velocity, velRes, uv, -ts, 0)[2]
            R == Fetch(velocity, velRes, uv, ts, 0)[2]
            B == Fetch(velocity, velRes, uv, 0, -ts)[1]
            T == Fetch(velocity, velRes, uv, 0, ts)[1]
        IN  <<RDiv((R - L) - (T - B), 2)>>]

\* ------------------------------------------------------------ JS numbers
\* A JS number that may be NaN (the result of parseInt / parseFloat).
Num(v) == [nan |-> FALSE, v |-> v]
NaNValue == [nan |-> TRUE, v |-> 0]

\* JS `i < n`: false whenever n is NaN.
LessThan(i, n) == (~n.nan) /\ i < n.v

Digits == <<"0", "1", "2", "3", "4", "5", "6", "7", "8", "9">>
IsDigit(ch) == \E d \in 1..10 : Digits[d] = ch
DigitOf(ch) == (CHOOSE d \in 1..10 : Digits[d] = ch) - 1

\* Longest run of digits of s from position k on: its end and its value.
RECURSIVE ParseDigits(_, _, _)
ParseDigits(s, k, acc) ==
    IF k > Len(s) \/ ~IsDigit(s[k]) THEN [pos |-> k, val |-> acc]
    ELSE ParseDigits(s, k + 1, acc * 10 + DigitOf(s[k]))

\* Fraction digits of s from position k on, in units of 1/FP (scale is the
\* weight of the digit at k).
RECURSIVE ParseFraction(_, _, _, _)
ParseFraction(s, k, scale, acc) ==
    IF k > Len(s) \/ ~IsDigit(s[k]) THEN [pos |-> k, val |-> acc]
    ELSE ParseFraction(s, k + 1, scale \div 10, acc + DigitOf(s[k]) * scale)

HasSign(s) == Len(s) > 0 /\ s[1] \in {"-", "+"}
SignOf(s) == IF Len(s) > 0 /\ s[1] = "-" THEN -1 ELSE 1

\* parseInt(val): optional sign, then decimal digits up to the first other
\* character; NaN when there is no digit.  s is the string as a tuple of chars.
parseInt(s) ==
    LET start == IF HasSign(s) THEN 2 ELSE 1
        r == ParseDigits(s, start, 0)
    IN  IF r.pos = start THEN NaNValue ELSE Num(SignOf(s) * r.val)

\* parseFloat(val): optional sign, digits, optional "." and digits; NaN when
\* there is no digit.  The value is in 1/FP.
parseFloat(s) ==
    LET start == IF HasSign(s) THEN 2 ELSE 1
        ip == ParseDigits(s, start, 0)
        hasDot == ip.pos <= Len(s) /\ s[ip.pos] = "."
        fp == IF hasDot THEN ParseFraction(s, ip.pos + 1, FP \div 10, 0)
              ELSE [pos |-> ip.pos, val |-> 0]
        noDigits == ip.pos = start /\ (~hasDot \/ fp.pos = ip.pos + 1)
    IN  IF noDigits THEN NaNValue ELSE Num(SignOf(s) * (ip.val * FP + fp.val))

\* ------------------------------------------------------------- hslToRgb
hue2rgb(p, q, t) ==
    LET t1 == IF t < 0 THEN t + FP ELSE t
        t2 == IF t1 > FP THEN t1 - FP ELSE t1
    IN  IF 6 * t2 < FP THEN p + RDiv((q - p) * 6 * t2, FP)
        ELSE IF 2 * t2 < FP THEN q
        ELSE IF 3 * t2 < 2 * FP THEN p + RDiv((q - p) * (2 * FP - 3 * t2) * 2, FP)
        ELSE p

hslToRgb(h, s, l) ==
    IF s = 0 THEN <<l, l, l>>
    ELSE LET q == IF 2 * l < FP THEN RDiv(l * (FP + s), FP) ELSE l + s - RDiv(l * s, FP)
             p == 2 * l - q
         IN  <<hue2rgb(p, q, h + FP \div 3), hue2rgb(p, q, h), hue2rgb(p, q, h - FP \div 3)>>

\* ------------------------------------------------------------ GL machine
\* F(M), with M evaluated first (statement sequencing).
Then(M, F(_)) == IF M = M THEN F(M) ELSE F(M)

\* M is the GL side of the program: M.textures (the roles), M.data (texel
\* contents of each physical buffer), M.unit (texture bound to TEXTURE0 and
\* TEXTURE1), M.trace (the draws and swaps of the current frame) and
\* M.created (the numbers of GL objects created so far with gl.createBuffer,
\* gl.createTexture and gl.createFramebuffer).

\* gl.activeTexture(TEXTUREu); gl.bindTexture(TEXTURE_2D, b.texture)
bindTexture(M, u, b) == [M EXCEPT !.unit[u] = b]

\* Mutant of swap: the texels of the write buffer are copied into the read
\* buffer instead of the roles being exchanged.
swap_CopiesData(M, field) ==
    LET r == M.textures[field].read
        w == M.textures[field].write
    IN  [M EXCEPT !.data[r] = M.data[w],
                  !.trace = Append(@, [op |-> "swap", stage |-> field, target |-> "none",
                                       samples |-> {}, read |-> r, write |-> w])]

\* Mutant of swap: the exchange without the temporary.
swap_NoTemp(M, field) ==
    LET w == M.textures[field].write
    IN  [M EXCEPT !.textures[field] = [read |-> w, write |-> w],
                  !.trace = Append(@, [op |-> "swap", stage |-> field, target |-> "none",
                                       samples |-> {}, read |-> w, write |-> w])]

\* textures.<field>.swap()
swap(M, field) ==
    LET r == M.textures[field].read
        w == M.textures[field].write
    IN  [M EXCEPT !.textures[field] = [read |-> w, write |-> r],
                  !.trace = Append(@, [op |-> "swap", stage |-> field, target |-> "none",
                                       samples |-> {}, read |-> w, write |-> r])]

\* blit(target) with the current program: the fragments `out` are written to
\* target; `units` are the texture units the program's samplers are set to.
blit(M, stage, target, units, out) ==
    [M EXCEPT !.data[target] = Strict(out),
              !.trace = Append(@, [op |-> "blit", stage |-> stage, target |-> target,
                                   samples |-> {M.unit[u] : u \in units},
                                   read |-> "none", write |-> "none"])]

\* blit(null): draw to the canvas; no texture is written.
blitCanvas(M, stage, units) ==
    [M EXCEPT !.trace = Append(@, [op |-> "blit", stage |-> stage, target |-> "canvas",
                                   samples |-> {M.unit[u] : u \in units},
                                   read |-> "none", write |-> "none"])]

\* Draw with programs.splat: u_texture = unit 0.
drawSplat(M, stage, target, point, color, radiusMilli) ==
    blit(M, stage, target, {0},
         splatShader(M.data[M.unit[0]], ResOf(M.unit[0]), ResOf(target), point, color, radiusMilli))

\* Draw with programs.advection: u_velocity = unit 0, u_source = unit 1.
drawAdvection(M, stage, target, texelSize, dtNum, dtDen, dissipation) ==
    blit(M, stage, target, {0, 1},
         advectionShader(M.data[M.unit[0]], ResOf(M.unit[0]),
                         M.data[M.unit[1]], ResOf(M.unit[1]),
                         ResOf(target), texelSize, dtNum, dtDen, dissipation))

\* Draw with programs.divergence: u_velocity = unit 0.
drawDivergence(M, target) ==
    blit(M, "divergence", target, {0},
         divergenceShader(M.data[M.unit[0]], ResOf(M.unit[0]), ResOf(target), TexelSize(SimRes)))

\* Draw with programs.clear: no sampler.
drawClear(M, stage, target) ==
    blit(M, stage, target, {}, clearShader(ResOf(target), ChannelsOf(target)))

\* Draw with programs.pressure: u_pressure = unit 0, u_divergence = unit 1.
drawPressure(M, target) ==
    blit(M, "pressure", target, {0, 1},
         pressureShader(M.data[M.unit[0]], ResOf(M.unit[0]), M.data[M.unit[1]], ResOf(M.unit[1]),
                        ResOf(target), TexelSize(SimRes)))

\* Draw with programs.gradientSubtract: u_pressure = unit 0, u_velocity = unit 1.
drawGradientSubtract(M, target) ==
    blit(M, "gradientSubtract", target, {0, 1},
         gradientSubtractShader(M.data[M.unit[0]], ResOf(M.unit[0]), M.data[M.unit[1]], ResOf(M.unit[1]),
                                ResOf(target), TexelSize(SimRes)))

\* Draw with programs.curl: u_velocity = unit 0.
drawCurl(M, target) ==
    blit(M, "curl", target, {0},
         curlShader(M.data[M.unit[0]], ResOf(M.unit[0]), ResOf(target), TexelSize(SimRes)))


\* ------------------------------------------------------------------ step
\* step(0.016): dt in thousandths.
DtMilli == 16

\* 1.0 - simParams.viscosity * 0.1  and  1.0 - simParams.diffusion * 0.01.
VelocityDissipation(params) == FP - RDiv(params.viscosity.v, 10)
DyeDissipation(params) == FP - RDiv(params.diffusion.v, 100)

\* splat(x, y, dx, dy): a new vertex buffer (gl.createBuffer()), the
\* velocity splat, then the dye splat.  hue is (Date.now() * 0.001) % 1.
splat(M, x, y, dx, dy, hue) ==
    LET M0 == [M EXCEPT !.created.buffer = @ + 1]
        M1 == bindTexture(M0, 0, M0.textures.velocity.read)
        M2 == drawSplat(M1, "splatVelocity", M1.textures.velocity.write, <<x, y>>,
                        <<RDiv(dx * 10 * FP, CU), RDiv(dy * 10 * FP, CU), 0>>, 2)
        M3 == swap(M2, "velocity")
        rgb == hslToRgb(hue, (8 * FP) \div 10, FP \div 2)
        M4 == bindTexture(M3, 0, M3.textures.dye.read)
        M5 == drawSplat(M4, "splatDye", M4.textures.dye.write, <<x, y>>, rgb, 3)
    IN  swap(M5, "dye")

\* Mutant of stepInject: the splat is not gated on isMouseDown.
stepInject_Always(M, in) ==
    splat(M, in.mousePos[1], in.mousePos[2],
          in.mousePos[1] - in.lastMousePos[1], in.mousePos[2] - in.lastMousePos[2], in.hue)

\* "Process mouse input"
stepInject(M, in) ==
    IF in.isMouseDown
    THEN splat(M, in.mousePos[1], in.mousePos[2],
               in.mousePos[1] - in.lastMousePos[1], in.mousePos[2] - in.lastMousePos[2], in.hue)
    ELSE M

\* "Advect velocity"
stepAdvectVelocity(M, in) ==
    LET M1 == bindTexture(M, 0, M.textures.velocity.read)
        M2 == bindTexture(M1, 1, M1.textures.velocity.read)
        M3 == drawAdvection(M2, "advectVelocity", M2.textures.velocity.write,
                            TexelSize(SimRes), DtMilli, 1000, VelocityDissipation(in.simParams))
    IN  swap(M3, "velocity")

\* "Advect dye": TEXTURE0 keeps the binding made for the velocity advection.
stepAdvectDye(M, in) ==
    LET M1 == bindTexture(M, 1, M.textures.dye.read)
        M2 == drawAdvection(M1, "advectDye", M1.textures.dye.write,
                            TexelSize(DyeRes), DtMilli, 1000, DyeDissipation(in.simParams))
    IN  swap(M2, "dye")

\* Mutant of stepDivergence: the divergence is not drawn.
stepDivergence_Skip(M) == bindTexture(M, 0, M.textures.velocity.read)

\* "Divergence"
stepDivergence(M) ==
    drawDivergence(bindTexture(M, 0, M.textures.velocity.read), M.textures.divergence)

\* Mutant of stepClearPressure: the clear is left out (warm start).
stepClearPressure_NoClear(M) == bindTexture(M, 1, M.textures.divergence)

\* Mutant of stepClearPressure: the write buffer is cleared instead.
stepClearPressure_ClearsWrite(M) ==
    bindTexture(drawClear(M, "clearPressure", M.textures.pressure.write), 1, M.textures.divergence)

\* Mutant of stepClearPressure: TEXTURE1 is not rebound for the solver and
\* keeps the dye texture bound for the dye advection.
stepClearPressure_NoDivergenceBind(M) == drawClear(M, "clearPressure", M.textures.pressure.read)

\* "Clear pressure": the read buffer is cleared; TEXTURE1 is then bound to
\* the divergence texture for the solver.
stepClearPressure(M) ==
    bindTexture(drawClear(M, "clearPressure", M.textures.pressure.read), 1, M.textures.divergence)

\* Mutant of pressureIteration: the sweep is drawn into the velocity write
\* buffer.
pressureIteration_TargetVelocity(M) ==
    LET M1 == bindTexture(M, 0, M.textures.pressure.read)
        M2 == drawPressure(M1, M1.textures.velocity.write)
    IN  swap(M2, "pressure")

\* Mutant of pressureIteration: the write buffer is bound as u_pressure.
pressureIteration_BindWrite(M) ==
    LET M1 == bindTexture(M, 0, M.textures.pressure.write)
        M2 == drawPressure(M1, M1.textures.pressure.write)
    IN  swap(M2, "pressure")

\* Mutant of pressureIteration: the field is not swapped after the draw.
pressureIteration_NoSwap(M) ==
    LET M1 == bindTexture(M, 0, M.textures.pressure.read)
    IN  drawPressure(M1, M1.textures.pressure.write)

\* One pass of the body of the pressure loop.
pressureIteration(M) ==
    LET M1 == bindTexture(M, 0, M.textures.pressure.read)
        M2 == drawPressure(M1, M1.textures.pressure.write)
    IN  swap(M2, "pressure")

\* for (let i = 0; i < simParams.pressureIterations; i++) { ... }
RECURSIVE stepPressure(_, _, _)
stepPressure(M, i, n) ==
    IF LessThan(i, n)
    THEN Then(pressureIteration(M), LAMBDA m : stepPressure(m, i + 1, n))
    ELSE M

\* "Gradient subtraction"
stepGradientSubtract(M) ==
    LET M1 == bindTexture(M, 0, M.textures.pressure.read)
        M2 == bindTexture(M1, 1, M1.textures.velocity.read)
        M3 == drawGradientSubtract(M2, M2.textures.velocity.write)
    IN  swap(M3, "velocity")

\* "Compute curl for display"
stepCurl(M) ==
    drawCurl(bindTexture(M, 0, M.textures.velocity.read), M.textures.curl)

\* The GL machine after the velocity advection of a step, after its
\* divergence stage and after its pressure solve.
AfterAdvectVelocity(M, in) ==
    Then(stepInject(M, in), LAMBDA m : stepAdvectVelocity(m, in))
AfterAdvectDye(M, in) ==
    Then(AfterAdvectVelocity(M, in), LAMBDA m : stepAdvectDye(m, in))
AfterDivergence(M, in) ==
    Then(Then(AfterAdvectVelocity(M, in), LAMBDA m : stepAdvectDye(m, in)), stepDivergence)
\* Mutant of AfterPressure: the loop runs the count the page started with,
\* whatever has been stored since.
AfterPressure_InitialCount(M, in) ==
    Then(Then(AfterDivergence(M, in), stepClearPressure),
         LAMBDA m : stepPressure(m, 0, Num(20)))
AfterPressure(M, in) ==
    Then(Then(AfterDivergence(M, in), stepClearPressure),
         LAMBDA m : stepPressure(m, 0, in.simParams.pressureIterations))

\* Mutant of step: the curl is computed before the projection.
step_CurlBeforeProjection(M, in) ==
    Then(Then(AfterPressure(M, in), stepCurl), stepGradientSubtract)

\* step(dt)
step(M, in) == Then(Then(AfterPressure(M, in), stepGradientSubtract), stepCurl)

\* Mutant of display: the write-role buffer of the selected field is bound.
display_SamplesWrite(M, mode) ==
    LET displayTexture ==
            CASE mode = "velocity" -> M.textures.velocity.write
              [] mode = "pressure" -> M.textures.pressure.write
              [] mode = "curl"     -> M.textures.curl
              [] OTHER             -> M.textures.dye.write
    IN  blitCanvas(bindTexture(M, 0, displayTexture), "display", {0})

\* display()
display(M, mode) ==
    LET displayTexture ==
            CASE mode = "velocity" -> M.textures.velocity.read
              [] mode = "pressure" -> M.textures.pressure.read
              [] mode = "curl"     -> M.textures.curl
              [] OTHER             -> M.textures.dye.read
    IN  blitCanvas(bindTexture(M, 0, displayTexture), "display", {0})

\* Mutant of render: a paused frame returns before display().
render_PausedSkipsDisplay(M, paused, in) ==
    LET M0 == [M EXCEPT !.trace = <<>>]
    IN  IF paused THEN M0
        ELSE Then(step(M0, in), LAMBDA m : display(m, in.simParams.displayMode))

\* Mutant of render: the pause flag is not consulted.
render_IgnorePause(M, paused, in) ==
    LET M0 == [M EXCEPT !.trace = <<>>]
    IN  Then(step(M0, in), LAMBDA m : display(m, in.simParams.displayMode))

\* render(): the body of one frame (the trace restarts with the frame).
render(M, paused, in) ==
    LET M0 == [M EXCEPT !.trace = <<>>]
        M1 == IF ~paused THEN step(M0, in) ELSE M0
    IN  Then(M1, LAMBDA m : display(m, in.simParams.displayMode))

\* Mutant of clearFluid: the textures are created anew.
clearFluid_Reallocates(M) ==
    [M EXCEPT !.textures = createTextures,
              !.data = Strict([b \in Buffers |-> createFBO(b)]),
              !.created.texture = @ + Cardinality(Buffers),
              !.created.framebuffer = @ + Cardinality(Buffers),
              !.trace = Append(@, [op |-> "blit", stage |-> "clearFluid", target |-> "none",
                                   samples |-> {}, read |-> "none", write |-> "none"])]

\* clearFluid(): "Clear all textures"
clearFluid(M) ==
    LET M1 == drawClear(M, "clearFluid", M.textures.velocity.read)
        M2 == drawClear(M1, "clearFluid", M1.textures.velocity.write)
        M3 == drawClear(M2, "clearFluid", M2.textures.pressure.read)
        M4 == drawClear(M3, "clearFluid", M3.textures.pressure.write)
        M5 == drawClear(M4, "clearFluid", M4.textures.dye.read)
    IN  drawClear(M5, "clearFluid", M5.textures.dye.write)


\* ------------------------------------------------------------- inputs
\* (Date.now() * 0.001) % 1 at the moment of a splat.
Hues == {0, FP \div 2}

\* canvas.getBoundingClientRect()
canvasRect == [left |-> 0, top |-> 0, width |-> canvasWidth, height |-> canvasHeight]

\* Pointer events on the canvas (client coordinates in pixels): one between
\* the centres of the first simulation cell and of a dye cell, and its mirror.
PointerOffset == (5 * canvasWidth) \div (8 * SimRes)
PointerEvents ==
    {[clientX |-> PointerOffset, clientY |-> canvasHeight - PointerOffset],
     [clientX |-> canvasWidth - PointerOffset, clientY |-> PointerOffset]}

\* Values handed to the setters by the controls (strings, as tuples of chars).
ViscosityInputs == {<<"0">>, <<"0", ".", "5">>, <<"2", "0">>}
DiffusionInputs == {<<"0">>, <<"1">>, <<"-", "1">>}
IterationInputs == {<<"0">>, <<"3">>, <<"-", "1">>, <<"x">>}
DisplayModes == {"dye", "velocity", "pressure", "curl"}

\* -------------------------------------------------------------- state
VARIABLES
    gpu,           \* textures (roles), data (texels), unit (bindings), trace
    simParams,     \* viscosity, diffusion, pressureIterations, displayMode
    isPaused,
    mousePos,      \* normalized, in 1/CU
    lastMousePos,
    isMouseDown,
    frame,         \* history: the inputs and the GL machine at the start of the last frame
    afterFrame,    \* history: the handler that ran last was render()
    ticks,         \* frames rendered
    events,        \* events handled
    pendingFrames, \* animation-frame callbacks requested and not yet run
    pointerHeld,   \* environment: the press that began on the canvas and is
                   \* still held ("mouse", "touch"), or "none"
    programs,      \* programs.<name> is a program (TRUE) or null / unset (FALSE)
    setup          \* how init() went

vars == <<gpu, simParams, isPaused, mousePos, lastMousePos, isMouseDown,
          frame, afterFrame, ticks, events, pendingFrames, pointerHeld,
          programs, setup>>

\* The inputs step() reads.
StepInputs(hue) ==
    [isMouseDown |-> isMouseDown, mousePos |-> mousePos, lastMousePos |-> lastMousePos,
     simParams |-> simParams, hue |-> hue]

\* The state of the module-level declarations, of createTextures() (one
\* texture and one framebuffer per buffer) and of createQuadBuffer().
InitialParams ==
    [viscosity |-> Num(FP \div 10), diffusion |-> Num((2 * FP) \div 10),
     pressureIterations |-> Num(20), displayMode |-> "dye"]

InitialGpu ==
    [textures |-> createTextures,
     data     |-> Strict([b \in Buffers |-> createFBO(b)]),
     unit     |-> [u \in {0, 1} |-> "none"],
     trace    |-> <<>>,
     created  |-> [buffer |-> 1, texture |-> Cardinality(Buffers),
                   framebuffer |-> Cardinality(Buffers)]]

InitialInputs ==
    [isMouseDown |-> FALSE, mousePos |-> <<0, 0>>, lastMousePos |-> <<0, 0>>,
     simParams |-> InitialParams, hue |-> 0]

\* compileShaders(): the programs in the order they are created.
ProgramOrder ==
    <<"copy", "clear", "splat", "advection", "divergence", "pressure",
      "gradientSubtract", "curl", "displayDye", "displayVelocity",
      "displayPressure", "displayCurl">>
ProgramNames == {ProgramOrder[i] : i \in DOMAIN ProgramOrder}
IndexOf(p) == CHOOSE i \in DOMAIN ProgramOrder : ProgramOrder[i] = p

\* programs after compileShaders().  A program that fails to link is stored
\* as null (createProgram returns null) and the others are created; a
\* shader that fails to compile is null in gl.attachShader, which throws,
\* so the programs from that one on are never stored.
compileShaders(kind, failed) ==
    CASE kind = "ok"            -> [p \in ProgramNames |-> TRUE]
      [] kind = "linkFailed"    -> [p \in ProgramNames |-> p # failed]
      [] kind = "compileFailed" -> [p \in ProgramNames |-> IndexOf(p) < IndexOf(failed)]
      [] OTHER                  -> [p \in ProgramNames |-> FALSE]

\* Mutant of requestAnimationFrame: render() asks for two callbacks.
requestAnimationFrame_Twice(pending) == pending + 2

\* requestAnimationFrame(render): one more callback is pending.
requestAnimationFrame(pending) == pending + 1

\* init() ends with its own call of render(): the first frame runs before
\* any event can be delivered, and asks for the next one.
Init ==
    /\ gpu = render(InitialGpu, FALSE, InitialInputs)
    /\ simParams = InitialParams
    /\ isPaused = FALSE
    /\ mousePos = <<0, 0>>
    /\ lastMousePos = <<0, 0>>
    /\ isMouseDown = FALSE
    /\ frame = [paused |-> FALSE, in |-> InitialInputs, before |-> InitialGpu]
    /\ afterFrame = TRUE
    /\ ticks = 0
    /\ events = 0
    /\ pendingFrames = requestAnimationFrame(0)
    /\ pointerHeld = "none"
    /\ programs = compileShaders("ok", "none")
    /\ setup = "ok"

\* ------------------------------------------------------------- actions
\* The browser runs a pending animation-frame callback: render(), which
\* ends by asking for the next one.
Tick ==
    /\ ticks < MaxTicks
    /\ pendingFrames > 0
    /\ pendingFrames' = requestAnimationFrame(pendingFrames - 1)
    /\ \E hue \in (IF isMouseDown /\ ~isPaused THEN Hues ELSE {0}) :
          /\ gpu' = render(gpu, isPaused, StepInputs(hue))
          /\ frame' = [paused |-> isPaused, in |-> StepInputs(hue), before |-> gpu]
    /\ afterFrame' = TRUE
    /\ ticks' = ticks + 1
    /\ UNCHANGED <<simParams, isPaused, mousePos, lastMousePos, isMouseDown, events, pointerHeld>>
    /\ UNCHANGED <<programs, setup>>

\* updateMousePos(e)
updateMousePos(e) ==
    /\ lastMousePos' = mousePos
    /\ mousePos' = <<RDiv((e.clientX - canvasRect.left) * CU, canvasRect.width),
                     CU - RDiv((e.clientY - canvasRect.top) * CU, canvasRect.height)>>

\* An event handler runs between two frames.
Event ==
    /\ events < MaxEvents
    /\ events' = events + 1
    /\ afterFrame' = FALSE
    /\ UNCHANGED <<frame, ticks, pendingFrames, programs, setup>>

MouseDown ==
    /\ Event
    /\ \E e \in PointerEvents : updateMousePos(e)
    /\ isMouseDown' = TRUE
    /\ pointerHeld' = "mouse"
    /\ UNCHANGED <<gpu, simParams, isPaused>>

MouseMove ==
    /\ Event
    /\ \E e \in PointerEvents : updateMousePos(e)
    /\ UNCHANGED <<gpu, simParams, isPaused, isMouseDown, pointerHeld>>

MouseUp ==
    /\ Event
    /\ isMouseDown' = FALSE
    /\ pointerHeld' = IF pointerHeld = "mouse" THEN "none" ELSE pointerHeld
    /\ UNCHANGED <<gpu, simParams, isPaused, mousePos, lastMousePos>>

TouchStart ==
    /\ Event
    /\ \E e \in PointerEvents : updateMousePos(e)
    /\ isMouseDown' = TRUE
    /\ pointerHeld' = "touch"
    /\ UNCHANGED <<gpu, simParams, isPaused>>

TouchMove ==
    /\ Event
    /\ \E e \in PointerEvents : updateMousePos(e)
    /\ UNCHANGED <<gpu, simParams, isPaused, isMouseDown, pointerHeld>>

TouchEnd ==
    /\ Event
    /\ isMouseDown' = FALSE
    /\ pointerHeld' = IF pointerHeld = "touch" THEN "none" ELSE pointerHeld
    /\ UNCHANGED <<gpu, simParams, isPaused, mousePos, lastMousePos>>

\* The button is released while the pointer is off the canvas: the mouseup
\* event goes to the element under the pointer, and setupEventListeners
\* registers mouseup on the canvas only, so no handler runs.
MouseUpOutside ==
    /\ Event
    /\ pointerHeld = "mouse"
    /\ pointerHeld' = "none"
    /\ UNCHANGED <<gpu, simParams, isPaused, mousePos, lastMousePos, isMouseDown>>

\* The browser cancels the touch (touchcancel): setupEventListeners
\* registers no listener for it, so no handler runs.
TouchCancel ==
    /\ Event
    /\ pointerHeld = "touch"
    /\ pointerHeld' = "none"
    /\ UNCHANGED <<gpu, simParams, isPaused, mousePos, lastMousePos, isMouseDown>>

updateViscosity ==
    /\ Event
    /\ \E val \in ViscosityInputs : simParams' = [simParams EXCEPT !.viscosity = parseFloat(val)]
    /\ UNCHANGED <<gpu, isPaused, mousePos, lastMousePos, isMouseDown, pointerHeld>>

updateDiffusion ==
    /\ Event
    /\ \E val \in DiffusionInputs : simParams' = [simParams EXCEPT !.diffusion = parseFloat(val)]
    /\ UNCHANGED <<gpu, isPaused, mousePos, lastMousePos, isMouseDown, pointerHeld>>

updateIterations ==
    /\ Event
    /\ \E val \in IterationInputs :
          simParams' = [simParams EXCEPT !.pressureIterations = parseInt(val)]
    /\ UNCHANGED <<gpu, isPaused, mousePos, lastMousePos, isMouseDown, pointerHeld>>

updateDisplayMode ==
    /\ Event
    /\ \E mode \in DisplayModes : simParams' = [simParams EXCEPT !.displayMode = mode]
    /\ UNCHANGED <<gpu, isPaused, mousePos, lastMousePos, isMouseDown, pointerHeld>>

OnClear ==
    /\ Event
    /\ gpu' = clearFluid(gpu)
    /\ UNCHANGED <<simParams, isPaused, mousePos, lastMousePos, isMouseDown, pointerHeld>>

togglePause ==
    /\ Event
    /\ isPaused' = ~isPaused
    /\ UNCHANGED <<gpu, simParams, mousePos, lastMousePos, isMouseDown, pointerHeld>>

Next ==
    \/ Tick
    \/ MouseDown
    \/ MouseMove
    \/ MouseUp
    \/ TouchStart
    \/ TouchMove
    \/ TouchEnd
    \/ MouseUpOutside
    \/ TouchCancel
    \/ updateViscosity
    \/ updateDiffusion
    \/ updateIterations
    \/ updateDisplayMode
    \/ OnClear
    \/ togglePause

Spec == Init /\ [][Next]_vars


\* ------------------------------------------------- setup that may fail
\* display(): the program of the selected mode.
DisplayProgram(mode) ==
    CASE mode = "velocity" -> "displayVelocity"
      [] mode = "pressure" -> "displayPressure"
      [] mode = "curl"     -> "displayCurl"
      [] OTHER             -> "displayDye"

\* The programs step(dt) sets up: gl.useProgram(null) is accepted, and the
\* gl.getAttribLocation(null, ...) that follows it throws.
StepPrograms(in) ==
    {"advection", "divergence", "clear", "pressure", "gradientSubtract", "curl"}
    \cup (IF in.isMouseDown THEN {"splat"} ELSE {})
StepThrows(P, in) == \E p \in StepPrograms(in) : ~P[p]

\* render() throws, and does not reach requestAnimationFrame.
RenderThrows(P, paused, in) ==
    \/ ~paused /\ StepThrows(P, in)
    \/ ~P[DisplayProgram(in.simParams.displayMode)]

\* step(dt) with the programs P, up to the stage that throws: the exception
\* comes before any binding or draw of the stage (in splat(), after
\* gl.createBuffer()).
stepFromCurl(P, M) ==
    IF P["curl"] THEN stepCurl(M) ELSE M
stepFromGradient(P, M) ==
    IF P["gradientSubtract"] THEN Then(stepGradientSubtract(M), LAMBDA m : stepFromCurl(P, m)) ELSE M
stepFromPressure(P, M, in) ==
    IF P["pressure"]
    THEN Then(stepPressure(bindTexture(M, 1, M.textures.divergence), 0,
                           in.simParams.pressureIterations),
              LAMBDA m : stepFromGradient(P, m))
    ELSE M
stepFromClear(P, M, in) ==
    IF P["clear"]
    THEN Then(drawClear(M, "clearPressure", M.textures.pressure.read),
              LAMBDA m : stepFromPressure(P, m, in))
    ELSE M
stepFromDivergence(P, M, in) ==
    IF P["divergence"] THEN Then(stepDivergence(M), LAMBDA m : stepFromClear(P, m, in)) ELSE M
stepFromAdvection(P, M, in) ==
    IF P["advection"]
    THEN Then(stepAdvectVelocity(M, in),
              LAMBDA a : Then(stepAdvectDye(a, in), LAMBDA m : stepFromDivergence(P, m, in)))
    ELSE M
stepWith(P, M, in) ==
    IF ~in.isMouseDown THEN stepFromAdvection(P, M, in)
    ELSE IF P["splat"] THEN Then(stepInject(M, in), LAMBDA m : stepFromAdvection(P, m, in))
    ELSE [M EXCEPT !.created.buffer = @ + 1]

\* display() with the programs P.
displayWith(P, M, mode) ==
    IF P[DisplayProgram(mode)] THEN display(M, mode) ELSE M

\* render() with the programs P, up to the exception if there is one.
renderWith(P, M, paused, in) ==
    LET M0 == [M EXCEPT !.trace = <<>>]
    IN  IF paused THEN displayWith(P, M0, in.simParams.displayMode)
        ELSE IF StepThrows(P, in) THEN stepWith(P, M0, in)
        ELSE Then(stepWith(P, M0, in), LAMBDA m : displayWith(P, m, in.simParams.displayMode))

\* The programs whose failure is explored: one that no stage uses, the one
\* of the injection, the first and the last of the step, and a display
\* program that is not selected when the page starts.
FailingPrograms == {"copy", "splat", "advection", "curl", "displayCurl"}

\* How init() can go.
SetupOutcomes ==
    {[kind |-> "ok", failed |-> "none"],
     [kind |-> "noCanvas", failed |-> "none"],
     [kind |-> "noContext", failed |-> "none"]}
    \cup {[kind |-> k, failed |-> p] : k \in {"compileFailed", "linkFailed"}, p \in FailingPrograms}

\* init() goes on to createTextures(), createQuadBuffer(),
\* setupEventListeners() and render(): it returns early without a canvas
\* or a context, and the exception of a failed compile ends it.
InitCompletes(kind) == kind \in {"ok", "linkFailed"}

\* No texture, framebuffer or buffer has been created.
UncreatedGpu ==
    [InitialGpu EXCEPT !.created = [buffer |-> 0, texture |-> 0, framebuffer |-> 0]]

\* init(), whatever its outcome.
SetupInit ==
    \E o \in SetupOutcomes :
        LET P == compileShaders(o.kind, o.failed)
            T == RenderThrows(P, FALSE, InitialInputs)
        IN  /\ setup = o.kind
            /\ programs = P
            /\ gpu = IF InitCompletes(o.kind)
                     THEN renderWith(P, InitialGpu, FALSE, InitialInputs)
                     ELSE UncreatedGpu
            /\ afterFrame = InitCompletes(o.kind)
            /\ pendingFrames = IF InitCompletes(o.kind) /\ ~T
                               THEN requestAnimationFrame(0) ELSE 0
            /\ simParams = InitialParams
            /\ isPaused = FALSE
            /\ mousePos = <<0, 0>>
            /\ lastMousePos = <<0, 0>>
            /\ isMouseDown = FALSE
            /\ frame = [paused |-> FALSE, in |-> InitialInputs, before |-> InitialGpu]
            /\ ticks = 0
            /\ events = 0
            /\ pointerHeld = "none"

\* A pending animation-frame callback runs render() with the programs that
\* setup left.
SetupTick ==
    /\ ticks < MaxTicks
    /\ pendingFrames > 0
    /\ \E hue \in (IF isMouseDown /\ ~isPaused THEN Hues ELSE {0}) :
          /\ gpu' = renderWith(programs, gpu, isPaused, StepInputs(hue))
          /\ pendingFrames' = IF RenderThrows(programs, isPaused, StepInputs(hue))
                              THEN pendingFrames - 1
                              ELSE requestAnimationFrame(pendingFrames - 1)
          /\ frame' = [paused |-> isPaused, in |-> StepInputs(hue), before |-> gpu]
    /\ afterFrame' = TRUE
    /\ ticks' = ticks + 1
    /\ UNCHANGED <<simParams, isPaused, mousePos, lastMousePos, isMouseDown, events, pointerHeld>>
    /\ UNCHANGED <<programs, setup>>

\* The pointer handlers exist once setupEventListeners() has run.
SetupPointer ==
    /\ InitCompletes(setup)
    /\ \/ MouseDown
       \/ MouseMove
       \/ MouseUp
       \/ TouchStart
       \/ TouchMove
       \/ TouchEnd
       \/ MouseUpOutside
       \/ TouchCancel

\* clearFluid(): without a context, or with programs.clear null, it throws
\* before its first draw.
SetupClear ==
    /\ Event
    /\ gpu' = IF InitCompletes(setup) /\ programs["clear"] THEN clearFluid(gpu) ELSE gpu
    /\ UNCHANGED <<simParams, isPaused, mousePos, lastMousePos, isMouseDown, pointerHeld>>

SetupNext ==
    \/ SetupTick
    \/ SetupPointer
    \/ updateViscosity
    \/ updateDiffusion
    \/ updateIterations
    \/ updateDisplayMode
    \/ SetupClear
    \/ togglePause

SetupSpec == SetupInit /\ [][SetupNext]_vars


\* ======================================================== properties
AllZero(grid) == \A c \in DOMAIN grid : \A k \in DOMAIN grid[c] : grid[c][k] = 0

\* The stage names of the draws of a trace, in order.
StagesOf(tr) ==
    LET draws == SelectSeq(tr, LAMBDA r : r.op = "blit" /\ r.stage # "clearFluid")
    IN  [k \in 1..Len(draws) |-> draws[k].stage]

\* Number of records of a trace that satisfy P.
Count(tr, P(_)) == Cardinality({k \in DOMAIN tr : P(tr[k])})

\* How often a loop `for (i = 0; i < n; i++)` runs its body.
LoopCount(n) == IF n.nan \/ n.v < 0 THEN 0 ELSE n.v

\* The order of section 2 of the specification for one frame.
ExpectedStages(down, n) ==
    (IF down THEN <<"splatVelocity", "splatDye">> ELSE <<>>)
    \o <<"advectVelocity", "advectDye", "divergence", "clearPressure">>
    \o [k \in 1..LoopCount(n) |-> "pressure"]
    \o <<"gradientSubtract", "curl", "display">>

\* The last frame ran step().
FrameStepped == ~frame.paused

\* ---- C1 ----------------------------------------------------------------
\* C1: in every frame whose step runs, the draws are exactly: the two splats
\* (only if the pointer was down at the start), velocity advection, dye
\* advection, divergence, pressure clear, N pressure iterations, gradient
\* subtraction, curl, and then the display, in this order.
C1_StageOrder ==
    FrameStepped =>
        StagesOf(gpu.trace) = ExpectedStages(frame.in.isMouseDown, frame.in.simParams.pressureIterations)

\* A frame with the pointer down and three pressure iterations has run.
C1_Witness ==
    /\ afterFrame /\ FrameStepped /\ ticks > 0
    /\ frame.in.isMouseDown
    /\ frame.in.simParams.pressureIterations = Num(3)
    /\ Len(StagesOf(gpu.trace)) = 12

\* ---- C2 ----------------------------------------------------------------
\* C2: no draw samples the physical buffer it renders to.
C2_NoFeedback ==
    \A k \in DOMAIN gpu.trace :
        gpu.trace[k].op = "blit" => gpu.trace[k].target \notin gpu.trace[k].samples

\* A frame in which every stage that samples a texture has drawn.
C2_Witness ==
    /\ afterFrame /\ ticks > 0
    /\ \A st \in {"splatVelocity", "splatDye", "advectVelocity", "advectDye",
                   "divergence", "pressure", "gradientSubtract", "curl"} :
          \E k \in DOMAIN gpu.trace :
              /\ gpu.trace[k].stage = st
              /\ gpu.trace[k].samples # {}
              /\ gpu.trace[k].target \in Buffers

\* ---- C3 ----------------------------------------------------------------
\* The stages that write a double-buffered field and swap it afterwards.
FieldOfStage(st) ==
    CASE st \in {"splatVelocity", "advectVelocity", "gradientSubtract"} -> "velocity"
      [] st \in {"splatDye", "advectDye"} -> "dye"
      [] st = "pressure" -> "pressure"
      [] OTHER -> "none"

DoubleFields == {"velocity", "pressure", "dye"}
PairOf(field) == {createTextures[field].read, createTextures[field].write}

\* C3: the read and the write role of each double-buffered field are always
\* the two distinct physical buffers of the field, and every draw of a stage
\* that writes such a field is followed by the swap of that field, after
\* which the read role is the buffer that was drawn to.
C3_Roles ==
    /\ \A f \in DoubleFields :
          /\ gpu.textures[f].read # gpu.textures[f].write
          /\ {gpu.textures[f].read, gpu.textures[f].write} = PairOf(f)
    /\ \A k \in DOMAIN gpu.trace :
          LET r == gpu.trace[k]
          IN  /\ (r.op = "blit" /\ FieldOfStage(r.stage) # "none") =>
                    /\ k < Len(gpu.trace)
                    /\ gpu.trace[k + 1].op = "swap"
                    /\ gpu.trace[k + 1].stage = FieldOfStage(r.stage)
                    /\ gpu.trace[k + 1].read = r.target
                    /\ gpu.trace[k + 1].write # r.target
                    /\ {gpu.trace[k + 1].read, gpu.trace[k + 1].write} = PairOf(FieldOfStage(r.stage))
              /\ r.op = "swap" =>
                    /\ k > 1
                    /\ gpu.trace[k - 1].op = "blit"
                    /\ FieldOfStage(gpu.trace[k - 1].stage) = r.stage
    /\ \A f \in DoubleFields :
          \A k \in DOMAIN gpu.trace :
              (/\ gpu.trace[k].op = "swap" /\ gpu.trace[k].stage = f
               /\ \A j \in (k + 1)..Len(gpu.trace) :
                     ~(gpu.trace[j].op = "swap" /\ gpu.trace[j].stage = f))
              => gpu.textures[f].read = gpu.trace[k].read

\* A frame with injection: all three fields have been written and swapped,
\* the velocity field three times.
C3_Witness ==
    /\ afterFrame /\ ticks > 0
    /\ Count(gpu.trace, LAMBDA r : r.op = "swap" /\ r.stage = "velocity") = 3
    /\ Count(gpu.trace, LAMBDA r : r.op = "swap" /\ r.stage = "dye") = 2
    /\ Count(gpu.trace, LAMBDA r : r.op = "swap" /\ r.stage = "pressure") = 20
    /\ ~AllZero(gpu.data[gpu.textures.velocity.read])


\* ---- C4 ----------------------------------------------------------------
\* C4: a frame rendered while paused changes no texel of any buffer and no
\* read/write role.
C4_PausedFrameFreezes ==
    (afterFrame /\ frame.paused) =>
        /\ gpu.data = frame.before.data
        /\ gpu.textures = frame.before.textures

\* A paused frame with the pointer down over non-zero velocity and dye.
C4_Witness ==
    /\ afterFrame /\ frame.paused /\ ticks > 0
    /\ frame.in.isMouseDown
    /\ ~AllZero(gpu.data[gpu.textures.velocity.read])
    /\ ~AllZero(gpu.data[gpu.textures.dye.read])

\* ---- C5 ----------------------------------------------------------------
\* clearFluid() was the last handler that drew.
JustCleared == gpu.trace[Len(gpu.trace)].stage = "clearFluid"

\* C5: after clearFluid(), before any further step, the velocity and the
\* pressure read buffers and the curl field are zero and the dye read buffer
\* is the background (zero).
C5_ClearResetsAll ==
    JustCleared =>
        /\ AllZero(gpu.data[gpu.textures.velocity.read])
        /\ AllZero(gpu.data[gpu.textures.pressure.read])
        /\ AllZero(gpu.data[gpu.textures.curl])
        /\ AllZero(gpu.data[gpu.textures.dye.read])

\* ---- C6 ----------------------------------------------------------------
\* C6: after a frame whose step injected, the previous pointer position
\* equals the current one.
C6_PreviousAdvanced ==
    (afterFrame /\ FrameStepped /\ frame.in.isMouseDown) => lastMousePos = mousePos

\* ---- C7 ----------------------------------------------------------------
ValidIterations(n) == ~n.nan /\ n.v >= 0

\* C7: an update of the pressure-iteration count to an invalid value is
\* rejected: whenever the stored count changes, the new count is valid.
C7_InvalidRejected ==
    [][simParams'.pressureIterations # simParams.pressureIterations
          => ValidIterations(simParams'.pressureIterations)]_vars

\* ---- C8 ----------------------------------------------------------------
\* The velocity produced by the velocity advection of the last frame.
AdvectedVelocity ==
    LET A == AfterAdvectVelocity(frame.before, frame.in)
    IN  A.data[A.textures.velocity.read]

\* C8: after a step with pressure-iteration count 0 the pressure read buffer
\* is zero and the velocity read buffer is the advected velocity of the step.
C8_ZeroIterations ==
    (afterFrame /\ FrameStepped /\ frame.in.simParams.pressureIterations = Num(0)) =>
        /\ AllZero(gpu.data[gpu.textures.pressure.read])
        /\ gpu.data[gpu.textures.velocity.read] = AdvectedVelocity

\* Such a step, started with non-zero pressure in both buffers and producing
\* non-zero velocity and divergence.
C8_Witness ==
    /\ afterFrame /\ FrameStepped /\ ticks > 0
    /\ frame.in.simParams.pressureIterations = Num(0)
    /\ ~AllZero(frame.before.data["pressure1"])
    /\ ~AllZero(frame.before.data["pressure2"])
    /\ ~AllZero(gpu.data[gpu.textures.velocity.read])
    /\ ~AllZero(gpu.data[gpu.textures.divergence])

\* ---- C9 ----------------------------------------------------------------
\* Two non-zero pressure grids.
OnesGrid == [c \in Cells(SimRes) |-> <<FP>>]
RampGrid == [c \in Cells(SimRes) |-> <<(1 + c[1] + 2 * c[2]) * (FP \div 4)>>]

\* M with other contents in the two pressure buffers, and possibly the
\* other buffer in the read role.
WithPressure(M, gr, gw, flip) ==
    LET r == IF flip THEN M.textures.pressure.write ELSE M.textures.pressure.read
        w == IF flip THEN M.textures.pressure.read ELSE M.textures.pressure.write
    IN  [M EXCEPT !.textures.pressure = [read |-> r, write |-> w],
                  !.data[r] = gr, !.data[w] = gw]

\* What the claim observes after a step.
Observed(M) ==
    [velocity   |-> M.data[M.textures.velocity.read],
     dye        |-> M.data[M.textures.dye.read],
     pressure   |-> M.data[M.textures.pressure.read],
     divergence |-> M.data[M.textures.divergence],
     curl       |-> M.data[M.textures.curl]]

\* C9: the step does not depend on the pressure buffers it starts with: run
\* from the same state with other pressure contents (and the other buffer in
\* the read role), the last frame ends with the same velocity, dye,
\* pressure-read, divergence and curl.
C9_NoWarmStart ==
    (afterFrame /\ FrameStepped) =>
        \A flip \in BOOLEAN :
            \A g \in {<<OnesGrid, RampGrid>>, <<RampGrid, OnesGrid>>} :
                Observed(render(WithPressure(frame.before, g[1], g[2], flip), FALSE, frame.in))
                    = Observed(gpu)

\* A step with 20 iterations that started from non-zero pressure and ended
\* with non-zero pressure.
C9_Witness ==
    /\ afterFrame /\ FrameStepped /\ ticks > 0
    /\ frame.in.simParams.pressureIterations = Num(20)
    /\ ~AllZero(frame.before.data[frame.before.textures.pressure.read])
    /\ ~AllZero(gpu.data[gpu.textures.pressure.read])

\* ---- C10 ---------------------------------------------------------------
VelocityBuffers == PairOf("velocity")
DyeBuffers == PairOf("dye")

\* The draws and swaps of step() in the trace (clearFluid() may have drawn
\* after the frame).
StepTrace == SelectSeq(gpu.trace, LAMBDA r : r.stage \notin {"clearFluid", "display"})

\* C10: a step splats once if the pointer was down when it started and not
\* at all otherwise; without a splat the velocity field is drawn to exactly
\* twice (advection, gradient subtraction) and the dye field exactly once
\* (advection), each draw followed by one swap.
C10_InjectionGated ==
    FrameStepped =>
        LET n == IF frame.in.isMouseDown THEN 1 ELSE 0
        IN  /\ Count(StepTrace, LAMBDA r : r.stage = "splatVelocity") = n
            /\ Count(StepTrace, LAMBDA r : r.stage = "splatDye") = n
            /\ ~frame.in.isMouseDown =>
                  /\ StagesOf(SelectSeq(StepTrace, LAMBDA r : r.target \in VelocityBuffers))
                        = <<"advectVelocity", "gradientSubtract">>
                  /\ StagesOf(SelectSeq(StepTrace, LAMBDA r : r.target \in DyeBuffers))
                        = <<"advectDye">>
                  /\ Count(StepTrace, LAMBDA r : r.op = "swap" /\ r.stage = "velocity") = 2
                  /\ Count(StepTrace, LAMBDA r : r.op = "swap" /\ r.stage = "dye") = 1

\* A step that ran with the pointer released after it had been pressed.
C10_Witness ==
    /\ afterFrame /\ FrameStepped /\ ticks > 0
    /\ ~frame.in.isMouseDown
    /\ frame.in.mousePos # <<0, 0>>

\* ---- C11 ---------------------------------------------------------------
\* Index of the display draw of the last frame in the trace (0 if none).
DisplayIndex ==
    IF \E k \in DOMAIN gpu.trace : gpu.trace[k].stage = "display"
    THEN CHOOSE k \in DOMAIN gpu.trace : gpu.trace[k].stage = "display"
    ELSE 0

\* C11: at most one frame callback is pending, and the draws since the start
\* of the last frame are one whole frame (all of step() when it ran, ending
\* with curl, then the one display draw) followed only by draws of handlers
\* that ran after the frame: no handler draws between two stages of a frame.
C11_TicksNeverOverlap ==
    /\ pendingFrames <= 1
    /\ Count(gpu.trace, LAMBDA r : r.stage = "display") = 1
    /\ \A k \in DOMAIN gpu.trace :
          /\ k < DisplayIndex => gpu.trace[k].stage \notin {"clearFluid", "display"}
          /\ k > DisplayIndex => gpu.trace[k].stage = "clearFluid"
    /\ FrameStepped => (DisplayIndex > 1 /\ gpu.trace[DisplayIndex - 1].stage = "curl")
    /\ frame.paused => DisplayIndex = 1

\* All frames and events of the run have happened, the last one a
\* clearFluid() after a frame that stepped; the next frame is requested.
C11_Witness ==
    /\ ticks = MaxTicks /\ events = MaxEvents
    /\ FrameStepped /\ JustCleared
    /\ DisplayIndex > 1
    /\ pendingFrames = 1

\* ---- C12 ---------------------------------------------------------------
\* Two non-zero dye grids.
DyeOnesGrid == [c \in Cells(DyeRes) |-> <<FP, FP \div 2, FP \div 4>>]
DyeRampGrid == [c \in Cells(DyeRes) |-> <<(1 + c[1]) * (FP \div 8), (1 + c[2]) * (FP \div 8), FP>>]

\* M with other contents in the two dye buffers, and possibly the other
\* buffer in the read role.
WithDye(M, gr, gw, flip) ==
    LET r == IF flip THEN M.textures.dye.write ELSE M.textures.dye.read
        w == IF flip THEN M.textures.dye.read ELSE M.textures.dye.write
    IN  [M EXCEPT !.textures.dye = [read |-> r, write |-> w],
                  !.data[r] = gr, !.data[w] = gw]

\* Everything of the GL machine that is not dye: the texels of the velocity,
\* pressure, divergence and curl buffers and the roles of velocity and pressure.
Dynamics(M) ==
    [velocity |-> M.textures.velocity,
     pressure |-> M.textures.pressure,
     data     |-> [b \in Buffers \ PairOf("dye") |-> M.data[b]]]

\* C12: the frame does not depend on the dye it starts with: run from the
\* same state with other dye contents (and the other dye buffer in the read
\* role), it ends with the same velocity, pressure, divergence and curl
\* buffers and roles.  Holding after every frame, it holds for every
\* sequence of frames.
C12_DyeNoBackReaction ==
    (afterFrame /\ FrameStepped) =>
        \A flip \in BOOLEAN :
            Dynamics(render(WithDye(frame.before, DyeOnesGrid, DyeRampGrid, flip), FALSE, frame.in))
                = Dynamics(gpu)

\* A second frame with injection, started over non-zero dye and velocity,
\* with the pressure solver running.
C12_Witness ==
    /\ afterFrame /\ FrameStepped /\ ticks > 1
    /\ frame.in.isMouseDown
    /\ frame.in.simParams.pressureIterations = Num(20)
    /\ ~AllZero(frame.before.data[frame.before.textures.dye.read])
    /\ ~AllZero(frame.before.data[frame.before.textures.velocity.read])
    /\ ~AllZero(gpu.data[gpu.textures.pressure.read])

\* ---- C13 ---------------------------------------------------------------
\* M with other contents in the divergence and the curl buffer.
WithDerived(M, gd, gc) ==
    [M EXCEPT !.data[M.textures.divergence] = gd, !.data[M.textures.curl] = gc]

\* All fields: the texels of every buffer and all roles.
Fields(M) == [textures |-> M.textures, data |-> M.data]

\* C13: every step draws the whole divergence and the whole curl buffer, and
\* does not depend on what they held before: run from the same state with
\* other divergence and curl contents, the frame ends with the same texels in
\* every buffer (velocity, pressure, dye, divergence, curl) and the same roles.
C13_DerivedFieldsRewritten ==
    (afterFrame /\ FrameStepped) =>
        /\ Count(gpu.trace, LAMBDA r : r.op = "blit" /\ r.target = gpu.textures.divergence) = 1
        /\ Count(gpu.trace, LAMBDA r : r.op = "blit" /\ r.target = gpu.textures.curl) = 1
        /\ \A g \in {<<OnesGrid, RampGrid>>, <<RampGrid, OnesGrid>>} :
              Fields(render(WithDerived(frame.before, g[1], g[2]), FALSE, frame.in)) = Fields(gpu)

\* A frame started over non-zero divergence and curl left by the frame before
\* it, with the pressure solver running.
C13_Witness ==
    /\ afterFrame /\ FrameStepped /\ ticks > 1
    /\ LessThan(0, frame.in.simParams.pressureIterations)
    /\ ~AllZero(frame.before.data[frame.before.textures.divergence])
    /\ ~AllZero(frame.before.data[frame.before.textures.curl])
    /\ ~AllZero(gpu.data[gpu.textures.divergence])
    /\ ~AllZero(gpu.data[gpu.textures.curl])

\* ---- C14 ---------------------------------------------------------------
\* The texels of both velocity and both dye buffers and the velocity roles.
VelocityAndDye(M) ==
    [roles |-> M.textures.velocity,
     data  |-> [b \in PairOf("velocity") \cup PairOf("dye") |-> M.data[b]]]

\* C14: from the end of the dye advection to the end of the pressure loop
\* (divergence, pressure clear, every pressure iteration) nothing of the
\* velocity buffers, the velocity roles and the dye buffers changes; the
\* draws of these stages go to the divergence and the pressure buffers, and
\* the only draws of a step into a velocity buffer are those of the velocity
\* splat, the velocity advection and the gradient subtraction.
C14_SolverLeavesVelocity ==
    (afterFrame /\ FrameStepped) =>
        /\ VelocityAndDye(AfterPressure(frame.before, frame.in))
              = VelocityAndDye(AfterAdvectDye(frame.before, frame.in))
        /\ \A k \in DOMAIN gpu.trace :
              LET r == gpu.trace[k]
              IN  /\ (r.op = "blit" /\ r.stage \in {"divergence", "clearPressure", "pressure"}) =>
                        r.target \in {gpu.textures.divergence} \cup PairOf("pressure")
                  /\ (r.op = "blit" /\ r.target \in PairOf("velocity")) =>
                        r.stage \in {"splatVelocity", "advectVelocity", "gradientSubtract"}
                  /\ (r.op = "swap" /\ r.stage = "velocity") =>
                        gpu.trace[k - 1].stage \in {"splatVelocity", "advectVelocity", "gradientSubtract"}

\* A frame with injection and pressure iterations over non-zero velocity and
\* dye, whose projection changed the velocity.
C14_Witness ==
    /\ afterFrame /\ FrameStepped /\ ticks > 0
    /\ frame.in.isMouseDown
    /\ LessThan(2, frame.in.simParams.pressureIterations)
    /\ ~AllZero(gpu.data[gpu.textures.dye.read])
    /\ gpu.data[gpu.textures.velocity.read] # gpu.data[gpu.textures.velocity.write]
    /\ ~AllZero(gpu.data[gpu.textures.divergence])

\* ---- C15 ---------------------------------------------------------------
\* Number of pressure sweeps (draw, then swap of the pressure field) in a trace.
PressureSweeps(tr) ==
    Cardinality({k \in DOMAIN tr : /\ tr[k].op = "blit" /\ tr[k].stage = "pressure"
                                   /\ k < Len(tr)
                                   /\ tr[k + 1].op = "swap" /\ tr[k + 1].stage = "pressure"})

\* C15: a frame that steps runs as many pressure sweeps as the count stored
\* when it starts (as the loop counts: none for a stored count that is
\* negative or NaN), whatever the count was in the frames before; a
\* parameter update by itself changes no buffer, no role and no binding.
C15_UpdateTakesEffectNextStep ==
    [][/\ (ticks' # ticks /\ ~isPaused) =>
              /\ PressureSweeps(gpu'.trace) = LoopCount(simParams.pressureIterations)
              /\ Count(gpu'.trace, LAMBDA r : r.stage = "pressure") = 2 * LoopCount(simParams.pressureIterations)
       /\ simParams' # simParams => gpu' = gpu]_vars

\* A frame has run with a count that was stored after the frame before it.
C15_Witness ==
    /\ afterFrame /\ FrameStepped /\ ticks > 1
    /\ frame.in.simParams.pressureIterations = Num(3)
    /\ PressureSweeps(gpu.trace) = 3
    /\ PressureSweeps(frame.before.trace) = 20

\* ---- C16 ---------------------------------------------------------------
\* C16: every frame draws the display exactly once, as its last draw; the
\* frame runs the whole step before it if and only if isPaused is false when
\* the frame starts, so also in the first frame after a resume.
C16_DisplayEveryFrame ==
    [][ticks' # ticks =>
          /\ isPaused => StagesOf(gpu'.trace) = <<"display">>
          /\ ~isPaused => StagesOf(gpu'.trace) = ExpectedStages(isMouseDown, simParams.pressureIterations)
          /\ Count(gpu'.trace, LAMBDA r : r.stage = "display") = 1
          /\ gpu'.trace[Len(gpu'.trace)].stage = "display"]_vars

\* The first frame after a resume: the frame before it was paused and drew
\* only the display, this one ran the step and then the display.
C16_Witness ==
    /\ afterFrame /\ FrameStepped /\ ticks > 1
    /\ ~isPaused
    /\ StagesOf(frame.before.trace) = <<"display">>
    /\ Len(StagesOf(gpu.trace)) > 1
    /\ gpu.trace[Len(gpu.trace)].stage = "display"

\* ---- C17 ---------------------------------------------------------------
\* The buffer the display of a kind is to sample: the read-role buffer of
\* the selected field, or the curl buffer.
SelectedRead(M, mode) ==
    CASE mode = "velocity" -> M.textures.velocity.read
      [] mode = "pressure" -> M.textures.pressure.read
      [] mode = "curl"     -> M.textures.curl
      [] mode = "dye"      -> M.textures.dye.read

\* The buffers that have a write role.
WriteRoles(M) == {M.textures[f].write : f \in DoubleFields}

\* C17: the display draws to the canvas and changes no texel and no role; in
\* every frame, and for every display kind in every reachable state, the one
\* texture it samples is the read-role buffer of the selected field (the curl
\* buffer for curl), never a write-role buffer.
C17_DisplayReadsOnly ==
    /\ \A mode \in DisplayModes :
          LET D == display(gpu, mode)
              d == D.trace[Len(D.trace)]
          IN  /\ D.data = gpu.data
              /\ D.textures = gpu.textures
              /\ d.target = "canvas"
              /\ d.samples = {SelectedRead(gpu, mode)}
              /\ d.samples \cap WriteRoles(gpu) = {}
    /\ LET d == gpu.trace[DisplayIndex]
       IN  /\ d.target = "canvas"
           /\ d.samples = {SelectedRead(gpu, frame.in.simParams.displayMode)}
           /\ d.samples \cap WriteRoles(gpu) = {}

\* A velocity display after a frame with injection: the velocity roles are
\* exchanged with respect to the first frame and the read buffer is sampled.
C17_Witness ==
    /\ afterFrame /\ FrameStepped /\ ticks > 0
    /\ frame.in.simParams.displayMode = "velocity"
    /\ gpu.textures.velocity.read # frame.before.textures.velocity.read
    /\ ~AllZero(gpu.data[gpu.textures.velocity.read])
    /\ gpu.trace[DisplayIndex].samples = {gpu.textures.velocity.read}

\* ---- C18 ---------------------------------------------------------------
\* C18: no texture and no framebuffer is created after init(); each
\* double-buffered field keeps its two physical buffers, divergence and curl
\* keep theirs, every buffer keeps its size; and clearFluid() changes no role
\* and creates nothing.
C18_AllocatedOnce ==
    /\ [](/\ gpu.created.texture = Cardinality(Buffers)
          /\ gpu.created.framebuffer = Cardinality(Buffers)
          /\ \A f \in DoubleFields : {gpu.textures[f].read, gpu.textures[f].write} = PairOf(f)
          /\ gpu.textures.divergence = createTextures.divergence
          /\ gpu.textures.curl = createTextures.curl
          /\ DOMAIN gpu.data = Buffers
          /\ \A b \in Buffers : DOMAIN gpu.data[b] = Cells(ResOf(b)))
    /\ [][(gpu'.trace # gpu.trace /\ gpu'.trace[Len(gpu'.trace)].stage = "clearFluid") =>
              /\ gpu'.textures = gpu.textures
              /\ gpu'.created = gpu.created]_vars

\* clearFluid() has run after frames with injection that left the velocity
\* roles exchanged with respect to createTextures.
C18_Witness ==
    /\ JustCleared /\ ticks > 0 /\ events > 1
    /\ gpu.textures.velocity.read = createTextures.velocity.write
    /\ gpu.created.buffer > 1

\* ---- C19 ---------------------------------------------------------------
\* C19: swap() of a double-buffered field, applied in any reachable state,
\* makes the write buffer the read buffer and the read buffer the write
\* buffer, leaves the roles of the other fields, every texel and every
\* binding as they are, and applied twice gives back the roles it started
\* from.
C19_SwapExchangesRoles ==
    \A f \in DoubleFields :
        LET S == swap(gpu, f)
            SS == swap(S, f)
        IN  /\ S.textures[f].read = gpu.textures[f].write
            /\ S.textures[f].write = gpu.textures[f].read
            /\ \A g \in DOMAIN gpu.textures \ {f} : S.textures[g] = gpu.textures[g]
            /\ S.data = gpu.data
            /\ S.unit = gpu.unit
            /\ SS.textures = gpu.textures
            /\ SS.data = gpu.data

\* A state in which the two buffers of the velocity, of the pressure and of
\* the dye field hold different texels.
C19_Witness ==
    /\ ticks > 0
    /\ \A f \in DoubleFields :
          gpu.data[gpu.textures[f].read] # gpu.data[gpu.textures[f].write]
    /\ gpu.textures.velocity.read = createTextures.velocity.write

\* ---- C20 ---------------------------------------------------------------
Abs(x) == IF x < 0 THEN -x ELSE x

RECURSIVE SumAbsOver(_, _)
SumAbsOver(g, S) ==
    IF S = {} THEN 0
    ELSE LET c == CHOOSE c \in S : TRUE
         IN  Abs(g[c][1]) + SumAbsOver(g, S \ {c})

\* The sum over the grid of the absolute value of a one-channel field; the
\* mean is this sum divided by the number of cells, which is the same for
\* every simulation-resolution field.
SumAbs(g) == SumAbsOver(g, DOMAIN g)

\* The divergence the step left in the divergence buffer: that of the
\* velocity right after advection, before the projection.
PreProjectionDivergence == gpu.data[gpu.textures.divergence]

\* The divergence of the velocity the step ended with, computed as the
\* divergence shader computes it.
PostProjectionDivergence ==
    divergenceShader(gpu.data[gpu.textures.velocity.read],
                     SimRes, SimRes, TexelSize(SimRes))

IterationCounts ==
    {LoopCount(InitialParams.pressureIterations)}
    \cup {LoopCount(parseInt(val)) : val \in IterationInputs}

\* The divergence of the velocity the last frame's step would have ended
\* with, had it run n pressure iterations on the same state and inputs.
PostProjectionDivergenceWith(n) ==
    LET in == [frame.in EXCEPT !.simParams.pressureIterations = Num(n)]
        M  == step(frame.before, in)
    IN  divergenceShader(M.data[M.textures.velocity.read],
                         SimRes, SimRes, TexelSize(SimRes))

ClampCoord(u) == IF u < 0 THEN 0 ELSE IF u > CU THEN CU ELSE u

\* Coordinates sampled: the cell centres, the centres shifted by one texel
\* to either side (as the stencils do), the two ends of [0, 1], and
\* coordinates just outside and one whole texture outside of it.
SampleCoords(res) ==
    {UV(i, res) + k * TexelSize(res) : i \in 0..(res - 1), k \in {-1, 0, 1}}
    \cup {-CU, -1, 0, CU, CU + 1, 2 * CU}

\* The texel of the neighbour of cell c in direction (dx, dy), the cell
\* itself standing in for a neighbour that lies outside the grid.
Neighbour(grid, res, c, dx, dy) ==
    LET n == <<c[1] + dx, c[2] + dy>>
    IN  IF n \in Cells(res) THEN grid[n] ELSE grid[c]

\* C22: in every reachable state, sampling any buffer at a coordinate
\* outside [0,1]x[0,1] gives what sampling at the nearest coordinate of
\* [0,1]x[0,1] gives, and a stencil's sample one texel beyond an edge is the
\* edge cell itself; after a stepped frame the divergence, the last
\* pressure sweep, the projected velocity and the curl are the stencil
\* values computed with every outside neighbour read as the cell itself.
C22_ClampToEdge ==
    /\ \A b \in Buffers : \A u \in SampleCoords(ResOf(b)) : \A v \in SampleCoords(ResOf(b)) :
          texture2D(gpu.data[b], ResOf(b), u, v)
            = texture2D(gpu.data[b], ResOf(b), ClampCoord(u), ClampCoord(v))
    /\ \A b \in Buffers : \A c \in Cells(ResOf(b)) :
          \A d \in {<<-1, 0>>, <<1, 0>>, <<0, -1>>, <<0, 1>>} :
             Fetch(gpu.data[b], ResOf(b), FragUV(c, ResOf(b)),
                   d[1] * TexelSize(ResOf(b)), d[2] * TexelSize(ResOf(b)))
               = Neighbour(gpu.data[b], ResOf(b), c, d[1], d[2])
    /\ (afterFrame /\ FrameStepped) =>
          LET adv == gpu.data[gpu.textures.velocity.write]
              vel == gpu.data[gpu.textures.velocity.read]
              prs == gpu.data[gpu.textures.pressure.read]
              old == gpu.data[gpu.textures.pressure.write]
              div == gpu.data[gpu.textures.divergence]
              N(g, c, dx, dy) == Neighbour(g, SimRes, c, dx, dy)
          IN  \A c \in Cells(SimRes) :
                /\ div[c][1] = RDiv(N(adv, c, 1, 0)[1] - N(adv, c, -1, 0)[1]
                                    + N(adv, c, 0, 1)[2] - N(adv, c, 0, -1)[2], 2)
                /\ LessThan(0, frame.in.simParams.pressureIterations) =>
                      prs[c][1] = RDiv(N(old, c, -1, 0)[1] + N(old, c, 1, 0)[1]
                                       + N(old, c, 0, -1)[1] + N(old, c, 0, 1)[1]
                                       - div[c][1], 4)
                /\ vel[c] = <<adv[c][1] - RDiv(N(prs, c, 1, 0)[1] - N(prs, c, -1, 0)[1], 2),
                              adv[c][2] - RDiv(N(prs, c, 0, 1)[1] - N(prs, c, 0, -1)[1], 2)>>
                /\ gpu.data[gpu.textures.curl][c][1]
                      = RDiv((N(vel, c, 1, 0)[2] - N(vel, c, -1, 0)[2])
                             - (N(vel, c, 0, 1)[1] - N(vel, c, 0, -1)[1]), 2)

\* A stepped frame has left a velocity and a pressure whose cells on
\* opposite edges differ (a wrapped read would show), and a non-zero
\* divergence in an edge cell.
C22_Witness ==
    /\ afterFrame /\ FrameStepped
    /\ LessThan(0, frame.in.simParams.pressureIterations)
    /\ LET vel == gpu.data[gpu.textures.velocity.read]
           prs == gpu.data[gpu.textures.pressure.read]
       IN  /\ vel[<<0, 0>>] # vel[<<SimRes - 1, 0>>]
           /\ vel[<<0, 0>>] # vel[<<0, SimRes - 1>>]
           /\ prs[<<0, 0>>] # prs[<<SimRes - 1, 0>>]
           /\ gpu.data[gpu.textures.divergence][<<0, 0>>][1] # 0

\* ---- C23 ---------------------------------------------------------------
\* The sum of the absolute values of all channels of a grid.
TotalMagnitude(g) ==
    LET chan(k) == [c \in DOMAIN g |-> <<g[c][k]>>]
    IN  SumAbs(chan(1)) + SumAbs(chan(2)) + SumAbs(chan(3))

\* The last frame stepped with dye dissipation 1.0, from a velocity that
\* was zero everywhere, with the pointer up.
PureTransportFrame ==
    /\ afterFrame /\ FrameStepped
    /\ ~frame.in.isMouseDown
    /\ ~frame.in.simParams.diffusion.nan
    /\ DyeDissipation(frame.in.simParams) = FP
    /\ AllZero(frame.before.data[frame.before.textures.velocity.read])

\* C23: a step with dye dissipation 1.0, zero velocity and the pointer up
\* leaves every cell of the dye read buffer as it was, whatever the dye is
\* (the dye the frame started with, and two other dye contents put in its
\* place, with either buffer in the read role); the total dye magnitude is
\* then the same after the step.
C23_DyeKeptWithoutDecay ==
    PureTransportFrame =>
        /\ gpu.data[gpu.textures.dye.read]
              = frame.before.data[frame.before.textures.dye.read]
        /\ \A flip \in BOOLEAN :
              \A g \in {<<DyeOnesGrid, DyeRampGrid>>, <<DyeRampGrid, DyeOnesGrid>>} :
                 LET R == render(WithDye(frame.before, g[1], g[2], flip), FALSE, frame.in)
                 IN  /\ R.data[R.textures.dye.read] = g[1]
                     /\ TotalMagnitude(R.data[R.textures.dye.read]) = TotalMagnitude(g[1])

\* Such a frame after the diffusion control has stored 0.
C23_Witness ==
    /\ PureTransportFrame
    /\ ticks > 0
    /\ frame.in.simParams.diffusion = Num(0)
    /\ simParams.diffusion # InitialParams.diffusion

\* ---- C24 ---------------------------------------------------------------
\* The buffer in the read role of field f just before record k of the
\* frame's trace: the one the last swap of f before k put there, or the one
\* the frame started with.
ReadRoleAt(k, f) ==
    LET swaps == {j \in 1..(k - 1) : gpu.trace[j].op = "swap" /\ gpu.trace[j].stage = f}
    IN  IF swaps = {} THEN frame.before.textures[f].read
        ELSE gpu.trace[CHOOSE j \in swaps : \A i \in swaps : i <= j].read

\* C24: every buffer of a double-buffered field that a draw of a stepped
\* frame samples is the buffer in the read role of its field at that moment
\* (the completed output of the last stage that wrote the field); so the
\* velocity sampled by the dye advection is the target of the velocity
\* advection of the same frame.
C24_StagesReadLatestOutput ==
    (afterFrame /\ FrameStepped) =>
        /\ \A k \in DOMAIN gpu.trace : \A f \in DoubleFields :
              \A b \in gpu.trace[k].samples \cap PairOf(f) : b = ReadRoleAt(k, f)
        /\ \A k \in DOMAIN gpu.trace :
              gpu.trace[k].stage = "advectDye" =>
                 \E j \in 1..(k - 1) :
                    /\ gpu.trace[j].stage = "advectVelocity"
                    /\ gpu.trace[j].target \in gpu.trace[k].samples

\* The dye a frame ends with is the dye advected along the velocity its
\* velocity advection produced.
C24_DyeFollowsAdvectedVelocity ==
    (afterFrame /\ FrameStepped) =>
        LET A == AfterAdvectVelocity(frame.before, frame.in)
            B == bindTexture(A, 0, A.textures.velocity.read)
            D == stepAdvectDye(B, frame.in)
        IN  gpu.data[gpu.textures.dye.read] = D.data[D.textures.dye.read]

\* ---- C25 ---------------------------------------------------------------
\* The frame drawn by this step injected.
Injects(tr) == Count(tr, LAMBDA r : r.stage = "splatVelocity") > 0

\* C25: a frame injects only while a press that began on the canvas is
\* still held: after the release, on the canvas or off it, or after a
\* touch cancel, no frame injects until the next press on the canvas.
C25_InjectsOnlyWhileHeld ==
    [][(ticks' # ticks /\ Injects(gpu'.trace)) => pointerHeld # "none"]_vars

\* ---- C26 ---------------------------------------------------------------
\* The draws of the projection in a trace: the pressure clear, the pressure
\* iterations and the gradient subtraction, in order.
ProjectionDraws(tr) ==
    SelectSeq(tr, LAMBDA r : r.op = "blit"
                             /\ r.stage \in {"clearPressure", "pressure", "gradientSubtract"})

\* n Jacobi sweeps over pressure p with divergence d.
RECURSIVE JacobiFrom(_, _, _)
JacobiFrom(p, d, n) ==
    IF n = 0 THEN p
    ELSE Then(pressureShader(p, SimRes, d, SimRes, SimRes, TexelSize(SimRes)),
              LAMBDA q : JacobiFrom(q, d, n - 1))

\* C26: in every stepped frame the projection draws are the pressure clear,
\* N pressure iterations and the gradient subtraction; each of them after
\* the clear samples, of the two pressure buffers, exactly the one the draw
\* before it wrote (the first iteration the cleared buffer, the gradient
\* subtraction the buffer of the last iteration, or the cleared buffer when
\* N = 0), every iteration samples the divergence buffer besides, and the
\* pressure read buffer the frame ends with is N sweeps applied in a chain
\* to the zero pressure.
C26_JacobiChain ==
    (afterFrame /\ FrameStepped) =>
        LET chain == ProjectionDraws(gpu.trace)
            n     == LoopCount(frame.in.simParams.pressureIterations)
        IN  /\ Len(chain) = n + 2
            /\ chain[1].stage = "clearPressure"
            /\ chain[n + 2].stage = "gradientSubtract"
            /\ \A i \in 2..(n + 1) :
                  /\ chain[i].stage = "pressure"
                  /\ chain[i].samples = {chain[i - 1].target, gpu.textures.divergence}
                  /\ chain[i].target \in PairOf("pressure") \ {chain[i - 1].target}
            /\ chain[n + 2].samples \cap PairOf("pressure") = {chain[n + 1].target}
            /\ gpu.textures.pressure.read = chain[n + 1].target
            /\ gpu.data[gpu.textures.pressure.read]
                  = JacobiFrom(clearShader(SimRes, 1), gpu.data[gpu.textures.divergence], n)

\* A frame with three iterations whose sweeps changed the pressure each
\* time: the two pressure buffers end non-zero and different.
C26_Witness ==
    /\ afterFrame /\ FrameStepped /\ ticks > 0
    /\ frame.in.simParams.pressureIterations = Num(3)
    /\ ~AllZero(gpu.data[gpu.textures.pressure.read])
    /\ ~AllZero(gpu.data[gpu.textures.pressure.write])
    /\ gpu.data[gpu.textures.pressure.read] # gpu.data[gpu.textures.pressure.write]

\* ---- C27 ---------------------------------------------------------------
\* f, a factor in 1/FP, lies in the interval (0, 1].
InUnitInterval(f) == 0 < f /\ f <= FP

\* C27: the dissipation factors a stepped frame hands to the velocity
\* advection and to the dye advection, computed from the stored viscosity
\* and diffusion, lie in (0, 1].
C27_DissipationInUnitInterval ==
    (afterFrame /\ FrameStepped) =>
        /\ ~frame.in.simParams.viscosity.nan
        /\ ~frame.in.simParams.diffusion.nan
        /\ InUnitInterval(VelocityDissipation(frame.in.simParams))
        /\ InUnitInterval(DyeDissipation(frame.in.simParams))

\* ---- C28 ---------------------------------------------------------------
\* C28: in every state between two handlers the curl buffer is the curl
\* stage applied to the buffer in the velocity read role.
C28_CurlMatchesVelocity ==
    gpu.data[gpu.textures.curl]
        = curlShader(gpu.data[gpu.textures.velocity.read], SimRes, SimRes, TexelSize(SimRes))

\* ---- C29 ---------------------------------------------------------------
\* C29: the numbers of GL buffers, textures and framebuffers created are,
\* in every state, the numbers init() created.
C29_NoAllocationAfterInit == gpu.created = InitialGpu.created

\* ---- C30 ---------------------------------------------------------------
\* C30: when setup has failed (no canvas, no context, a program that did
\* not compile or link), render() is never called, no animation frame is
\* ever pending and no frame is ever drawn.
C30_FailedSetupNeverRuns ==
    setup # "ok" =>
        /\ ~afterFrame
        /\ pendingFrames = 0
        /\ ticks = 0
        /\ gpu.trace = <<>>

\* With every program created, the frame of the fallible render is the
\* frame of render().
SetupOkIsRender ==
    (setup = "ok" /\ afterFrame) =>
        gpu = render(frame.before, frame.paused, frame.in)

\* A frame has been drawn, and the next one requested, with a program that
\* is null.
C30_RunsWithNullProgram ==
    ~(setup = "linkFailed" /\ ticks > 0 /\ pendingFrames > 0 /\ afterFrame
      /\ FrameStepped /\ Len(gpu.trace) > 0)

====
